---- MODULE Spec2Model ----
(***************************************************************************)
(* Movie Profanity Detector: the detection-and-extraction pipeline.        *)
(*                                                                         *)
(*   app/services/detector.py        DetectorService (check_srt,           *)
(*                                   extract_audio_segment_async,          *)
(*                                   extract_audio_segments)               *)
(*   app/api/endpoints/detection.py  process_srt, process_audio            *)
(*   app/api/endpoints/videos.py     upload_video                          *)
(*   app/api/endpoints/words.py      create_word                           *)
(*   app/services/speech.py          SpeechService (the mock stub)         *)
(*                                                                         *)
(* Strings are sequences of one-character strings, so that lower(),        *)
(* replace() and the substring test are computed and not assumed.          *)
(* The specifications share the variables:                                 *)
(*   SpecMatch     the subtitle matcher (check_srt and process_srt)        *)
(*   SpecExtract   one call of extract_audio_segments                      *)
(*   SpecAudio     process_srt followed by process_audio requests          *)
(*   SpecPipeline  either of the two extractors: a behaviour of            *)
(*                 SpecExtract or a behaviour of SpecAudio                 *)
(*   SpecSpeech    one call of SpeechService.batch_process_audio           *)
(*   SpecAudioFair SpecAudio with fair random draws                        *)
(*   SpecApi       uploads, process_srt and process_audio in any order     *)
(*   SpecNames     SpecApi on videos uploaded under two names              *)
(*   SpecWords     overlapping create_word requests                        *)
(***************************************************************************)
EXTENDS Integers, Sequences, FiniteSets, TLC

VARIABLES
    \* ---- inputs of DetectorService.check_srt and its result
    srt_file,          \* the parsed file at check_srt's srt_path: sequence of
                       \* [start, end, text], times in milliseconds
    srt_store,         \* the subtitle upload folder: movie_srt_path -> parsed file
    words_list,        \* check_srt's words_list argument
    cs_pc,             \* "ready" | "returned"
    detected_words,    \* check_srt's return value
    \* ---- database tables (rows in insertion order, id = position)
    db_words,          \* movie_words_lists: sequence of words_detector strings
    db_videos,         \* movie_video_info
    db_srt_words,      \* srt_detector_words
    db_movie_words,    \* movie_detector_words
    \* ---- the last process_srt request
    ps_response,       \* [status, body]
    \* ---- the last upload_video request
    up_response,       \* [status, body]
    \* ---- one call of DetectorService.extract_audio_segments
    ex_detections,     \* the detections argument
    orch_pc,           \* "init" | "gathering" | "returned" | "raised"
    task_pc,           \* per task: "pending" | "spawned" | "exited" | "returned" | "raised"
    task_number,       \* per task: create_number (0 before the draw)
    task_proc,         \* per task: [returncode, stderr] of its ffmpeg process
    task_result,       \* per task: what the coroutine returned or raised
    ex_completed,      \* the tasks that have finished, in the order they did
    audio_segments,    \* extract_audio_segments' return value
    fs,                \* the sound output directory: path -> file
    \* ---- one process_audio request
    pa_pc,             \* "idle" | "draw" | "check" | "ffmpeg" | "commit" | "done"
    pa_video,          \* id of the video of the request
    pa_detections,     \* the detections queried for the request
    pa_i,              \* index of the detection being processed
    create_number,     \* the local create_number
    gen_number_set,    \* the local gen_number_set
    pa_files,          \* output_file of each detection allocated so far
    pa_commands,       \* the ffmpeg runs of the request, in order
    processed_words,   \* the local processed_words (pending session rows)
    background_tasks,  \* tasks added to BackgroundTasks
    pa_response,       \* [status, body]
    pa_requests,       \* number of process_audio requests started
    \* ---- one call of SpeechService.batch_process_audio
    sp_pc,             \* "idle" | "ready" | "call" | "add" | "handled" | "done"
    sp_audio_files,    \* the audio_files argument
    sp_words_list,     \* the words_list argument
    sp_k,              \* index of the audio file of the current iteration
    sp_w,              \* index of the word _mock_process_timestamps is at
    sp_current_time,   \* _mock_process_timestamps' current_time, in seconds
    sp_session,        \* rows added to the session db and not yet committed
    db_speech,         \* movie_speech_resposn: committed rows
    sp_outcome,        \* how the last process_audio call ended
    sp_results,        \* batch_process_audio's results list
    \* ---- create_word requests, one per worker thread
    cw_pc,             \* per thread: "idle" | "queried" | "done"
    cw_word,           \* per thread: the words_detector of its request
    cw_response,       \* per thread: [status, body]
    cw_requests        \* number of create_word requests started

vars == <<srt_file, srt_store, words_list, cs_pc, detected_words,
          db_words, db_videos, db_srt_words, db_movie_words, ps_response,
          up_response,
          ex_detections, orch_pc, task_pc, task_number, task_proc, task_result,
          ex_completed, audio_segments, fs,
          pa_pc, pa_video, pa_detections, pa_i, create_number, gen_number_set,
          pa_files, pa_commands, processed_words, background_tasks, pa_response,
          pa_requests,
          sp_pc, sp_audio_files, sp_words_list, sp_k, sp_w, sp_current_time,
          sp_session, db_speech, sp_outcome, sp_results,
          cw_pc, cw_word, cw_response, cw_requests>>

matchVars == <<srt_file, words_list, cs_pc, detected_words>>
dbVars    == <<srt_store, db_words, db_videos, db_srt_words, db_movie_words, ps_response,
               up_response>>
exVars    == <<ex_detections, orch_pc, task_pc, task_number, task_proc,
               task_result, ex_completed, audio_segments>>
paVars    == <<pa_pc, pa_video, pa_detections, pa_i, create_number, gen_number_set,
               pa_files, pa_commands, processed_words, background_tasks, pa_response, pa_requests>>
spVars    == <<sp_pc, sp_audio_files, sp_words_list, sp_k, sp_w, sp_current_time,
               sp_session, db_speech, sp_outcome, sp_results>>
cwVars    == <<cw_pc, cw_word, cw_response, cw_requests>>

-----------------------------------------------------------------------------
(* Bounds of the model *)

MaxLines == 2        \* subtitle lines per file
MaxWords == 2        \* entries of the word list
MaxMatches == 2      \* detections handed to extract_audio_segments
MaxRequests == 1     \* process_audio requests per behaviour
MaxWorkers == 2      \* worker threads serving create_word
MaxWordRequests == 3 \* create_word requests per behaviour
MaxVideos == 2       \* uploaded videos per behaviour
MaxFiles == 2        \* audio files handed to batch_process_audio
MaxSpeechWords == 4  \* words handed to batch_process_audio
\* The documented id range is 1..1000; the model scales it to 1..DocumentedMaxId.
DocumentedMaxId == 2

-----------------------------------------------------------------------------
(* Python strings *)

\* All strings over `chars` of length 0..n.
Strings(chars, n) == UNION {[1..k -> chars] : k \in 0..n}

\* str.lower(), character by character
lower_char(c) ==
    CASE c = "A" -> "a"
      [] c = "B" -> "b"
      [] OTHER   -> c

lower(s) == [k \in 1..Len(s) |-> lower_char(s[k])]

\* Python's `w in t` for strings: w occurs in t as a contiguous substring.
str_in(w, t) ==
    \E k \in 0..(Len(t) - Len(w)) : SubSeq(t, k + 1, k + Len(w)) = w

\* str.replace(old, new) for one-character old and new: every occurrence.
replace(s, old, new) == [k \in 1..Len(s) |-> IF s[k] = old THEN new ELSE s[k]]

\* "%02d" and "%03d"
Digit(d) == CASE d = 0 -> "0" [] d = 1 -> "1" [] d = 2 -> "2" [] d = 3 -> "3"
              [] d = 4 -> "4" [] d = 5 -> "5" [] d = 6 -> "6" [] d = 7 -> "7"
              [] d = 8 -> "8" [] d = 9 -> "9"
fmt02(n) == <<Digit((n \div 10) % 10), Digit(n % 10)>>
fmt03(n) == <<Digit((n \div 100) % 10), Digit((n \div 10) % 10), Digit(n % 10)>>

\* str(SubRipTime): "%02d:%02d:%02d,%03d" of a time given in milliseconds
\* (times below 100 hours, as every time drawn here is).
str_time(ms) ==
    fmt02(ms \div 3600000) \o <<":">> \o fmt02((ms \div 60000) % 60) \o <<":">>
      \o fmt02((ms \div 1000) % 60) \o <<",">> \o fmt03(ms % 1000)

-----------------------------------------------------------------------------
(* DetectorService.check_srt *)

\* the test of line 50, compared without lowering either side
word_matches_case_sensitive(word, text) == str_in(word, text)
\* `word.lower() in line.text.lower()`
word_matches(word, text) == str_in(lower(word), lower(text))

\* the timestamp left as pysrt prints it
srt_timestamp_raw(t) == str_time(t)
\* `str(line.start).replace(",", ".")`
srt_timestamp(t) == replace(str_time(t), ",", ".")

\* the dictionary appended for one hit
Match(word, line) ==
    [word       |-> word,
     start_time |-> srt_timestamp(line.start),
     stop_time  |-> srt_timestamp(line.end),
     context    |-> line.text]

\* the inner loop `for word in words_list`, from index j on
RECURSIVE check_line(_, _, _, _)
check_line(line, words, j, acc) ==
    IF j > Len(words) THEN acc
    ELSE check_line(line, words, j + 1,
                    IF word_matches(words[j], line.text)
                    THEN Append(acc, Match(words[j], line))
                    ELSE acc)

\* the outer loop `for line in srt_file`, from index i on
RECURSIVE check_lines(_, _, _, _)
check_lines(srt, words, i, acc) ==
    IF i > Len(srt) THEN acc
    ELSE check_lines(srt, words, i + 1, check_line(srt[i], words, 1, acc))

\* the two loops exchanged: words outside, lines inside
RECURSIVE check_word_major(_, _, _, _, _)
check_word_major(srt, words, i, j, acc) ==
    IF j > Len(words) THEN acc
    ELSE IF i > Len(srt) THEN check_word_major(srt, words, 1, j + 1, acc)
    ELSE check_word_major(srt, words, i + 1, j,
                          IF word_matches(words[j], srt[i].text)
                          THEN Append(acc, Match(words[j], srt[i]))
                          ELSE acc)
check_srt_word_major(srt, words) == check_word_major(srt, words, 1, 1, <<>>)

check_srt(srt, words) == check_lines(srt, words, 1, <<>>)

\* A call of check_srt on the drawn file and word list.
CheckSrt ==
    /\ cs_pc = "ready"
    /\ detected_words' = check_srt(srt_file, words_list)
    /\ cs_pc' = "returned"
    /\ UNCHANGED <<srt_file, words_list, dbVars, exVars, cwVars, fs, paVars, spVars>>

-----------------------------------------------------------------------------
(* POST /process-srt/{video_id} *)

\* the timestamp left as pysrt prints it
ps_timestamp_raw(t) == str_time(t)
\* `str(line.start).replace(",", ".")` of the endpoint
ps_timestamp(t) == replace(str_time(t), ",", ".")

\* the SrtDetectorWords row added for one hit
SrtDetection(video, word, line) ==
    [movie_name     |-> video.movie_name,
     words          |-> word,
     srt_start_time |-> ps_timestamp(line.start),
     srt_stop_time  |-> ps_timestamp(line.end)]

RECURSIVE ps_line(_, _, _, _, _)
ps_line(video, line, words, j, acc) ==
    IF j > Len(words) THEN acc
    ELSE ps_line(video, line, words, j + 1,
                 IF str_in(lower(words[j]), lower(line.text))
                 THEN Append(acc, SrtDetection(video, words[j], line))
                 ELSE acc)

RECURSIVE ps_lines(_, _, _, _, _)
ps_lines(video, srt, words, i, acc) ==
    IF i > Len(srt) THEN acc
    ELSE ps_lines(video, srt, words, i + 1, ps_line(video, srt[i], words, 1, acc))

\* the rows process_srt adds for a video
process_srt_detections(video, words) ==
    ps_lines(video, srt_store[video.movie_srt_path], words, 1, <<>>)

\* no request answered yet
NoResponse == [status |-> 0, body |-> <<>>]

query_video_any_status(video_id, status) ==
    IF video_id \in 1..Len(db_videos) THEN video_id ELSE 0

\* `.filter(id == video_id, movie_check_status == status).first()`: 0 when no row
query_video(video_id, status) ==
    IF /\ video_id \in 1..Len(db_videos)
       /\ db_videos[video_id].movie_check_status = status
    THEN video_id ELSE 0

\* The handler has no await: it runs from the query to the commit in one piece.
ProcessSrt(video_id) ==
    /\ pa_pc \in {"idle", "done"}
    /\ LET v == query_video(video_id, "not_check") IN
       IF v = 0 \/ db_words = <<>>
       THEN /\ ps_response' = [status |-> 404, body |-> <<>>]
            /\ UNCHANGED <<db_videos, db_srt_words>>
       ELSE LET dets == process_srt_detections(db_videos[v], db_words) IN
            /\ db_srt_words' = db_srt_words \o dets
            /\ db_videos' = [db_videos EXCEPT ![v].movie_check_status = "checked"]
            /\ ps_response' = [status |-> 200, body |-> dets]
    /\ UNCHANGED <<srt_store, db_words, db_movie_words, up_response, matchVars, exVars, cwVars, fs,
                   paVars, spVars>>

-----------------------------------------------------------------------------
(* upload_video (videos.py) *)

\* settings.ALLOWED_EXTENSIONS, set in the environment
ALLOWED_EXTENSIONS == {<<"a">>, <<"b">>}

\* filename.rsplit('.', 1)[1]: what follows the last dot
rsplit_last(filename) ==
    LET k == CHOOSE k \in 1..Len(filename) :
                 /\ filename[k] = "."
                 /\ \A l \in (k + 1)..Len(filename) : filename[l] # "."
    IN SubSeq(filename, k + 1, Len(filename))

\* lines 32-37
allowed_file(filename) ==
    /\ \E k \in 1..Len(filename) : filename[k] = "."
    /\ lower(rsplit_last(filename)) \in ALLOWED_EXTENSIONS

\* lines 69-74: the VideoInfo row upload_video stores
VideoInfo(name, video_filename, srt_filename) ==
    [movie_name         |-> name,
     movie_path         |-> <<"upload_folder/video_upload/videos/", video_filename>>,
     movie_srt_path     |-> <<"upload_folder/video_upload/srtfiles/", srt_filename>>,
     movie_check_status |-> "not_check"]

\* open(srt_path, "wb") and the copy: the file at the path is replaced
save_file(store, path, content) ==
    [p \in DOMAIN store \cup {path} |-> IF p = path THEN content ELSE store[p]]

\* Lines 39-78. The handler has no await between its steps.
UploadVideo(video_name, video_filename, srt_filename, srt_content) ==
    /\ pa_pc \in {"idle", "done"}
    /\ Len(db_videos) < MaxVideos
    /\ IF ~(allowed_file(video_filename) /\ allowed_file(srt_filename))
       THEN /\ up_response' = [status |-> 400, body |-> <<>>]
            /\ UNCHANGED <<srt_store, db_videos>>
       ELSE LET db_video == VideoInfo(video_name, video_filename, srt_filename) IN
            /\ srt_store' = save_file(srt_store, db_video.movie_srt_path, srt_content)
            /\ db_videos' = Append(db_videos, db_video)
            /\ up_response' = [status |-> 200, body |-> <<db_video>>]
    /\ UNCHANGED <<db_words, db_srt_words, db_movie_words, ps_response,
                   matchVars, exVars, cwVars, fs, paVars, spVars>>

-----------------------------------------------------------------------------
(* DetectorService.extract_audio_segment_async and extract_audio_segments *)

\* random.randint(a, b): any integer N with a <= N <= b, both ends included
randint(a, b) == a..b

\* the upper argument of `random.randint(1, 1001)`: one above the documented
\* maximum, scaled like it
RandintUpper == DocumentedMaxId + 1

\* settings.SOUND_OUTPUT_DIR joined with f"{movie_name}-{create_number}.wav"
output_file(movie_name, number) == <<"SOUND_OUTPUT_DIR/", movie_name, "-", number, ".wav">>

\* the movie_name argument of the modelled call
ExMovieName == "m1"

OutputFiles == {output_file(ExMovieName, n) : n \in randint(1, RandintUpper)}

NoFile == [exists |-> FALSE, writer |-> 0, returncode |-> 0]

\* What ffmpeg leaves on its error stream when it fails, as bytes: a message
\* with white space around it, and one holding a byte (of a file name, say)
\* that is no UTF-8.
StderrTexts == {<<" ", "e", " ", "r", "\n">>, <<"e", "0xFF">>}

NoProc == [returncode |-> -1, stderr |-> <<>>, argv |-> <<>>]

\* bytes.decode(): defined when every byte is valid UTF-8
decodable(bytes) == \A k \in 1..Len(bytes) : bytes[k] # "0xFF"

is_space(c) == c \in {" ", "\n", "\t"}

\* str.strip(): leading and trailing white space removed
RECURSIVE lstrip(_)
lstrip(text) ==
    IF text # <<>> /\ is_space(Head(text)) THEN lstrip(Tail(text)) ELSE text
RECURSIVE rstrip(_)
rstrip(text) ==
    IF text # <<>> /\ is_space(text[Len(text)])
    THEN rstrip(SubSeq(text, 1, Len(text) - 1)) ELSE text
strip(text) == rstrip(lstrip(text))

\* Lines 91-93: the exception raised for a non-zero exit. decode() raises
\* UnicodeDecodeError before the message is built when stderr is no UTF-8.
ffmpeg_failure(stderr) ==
    IF decodable(stderr)
    THEN <<"Exception", <<"FFmpeg error: ">> \o strip(stderr)>>
    ELSE <<"UnicodeDecodeError", <<>>>>

\* the video_path argument of the modelled call
ExVideoPath == "v1.mp4"

\* a command whose -t argument is the start time
ffmpeg_command_start_as_duration(video_path, detection, output) ==
    <<"ffmpeg", "-ss", detection.start_time, "-i", video_path,
      "-t", detection.start_time, "-acodec", "libmp3lame", "-b:a", "320k",
      output, "-y">>
\* lines 71-80: the ffmpeg command of one detection
ffmpeg_command(video_path, detection, output) ==
    <<"ffmpeg", "-ss", detection.start_time, "-i", video_path,
      "-t", detection.stop_time, "-acodec", "libmp3lame", "-b:a", "320k",
      output, "-y">>
NoResult == [exception |-> FALSE, value |-> <<>>]

Finished(pc) == pc \in {"returned", "raised"}

\* `{**detection, "audio_path": result}`
AudioSegment(detection, path) ==
    [word       |-> detection.word,
     start_time |-> detection.start_time,
     stop_time  |-> detection.stop_time,
     context    |-> detection.context,
     audio_path |-> path]

\* the loop over zip(detections, results) with the isinstance test left out
RECURSIVE collect_every_result(_, _, _, _)
collect_every_result(detections, results, i, acc) ==
    IF i > Len(detections) \/ i > Len(results) THEN acc
    ELSE collect_every_result(detections, results, i + 1,
            Append(acc, AudioSegment(detections[i], results[i].value)))
collect_all(detections, results) == collect_every_result(detections, results, 1, <<>>)

\* the loop over zip(detections, results), from index i on
RECURSIVE collect_from(_, _, _, _)
collect_from(detections, results, i, acc) ==
    IF i > Len(detections) \/ i > Len(results) THEN acc
    ELSE collect_from(detections, results, i + 1,
            IF results[i].exception
            THEN acc
            ELSE Append(acc, AudioSegment(detections[i], results[i].value)))

collect_segments(detections, results) == collect_from(detections, results, 1, <<>>)

results_as_completed(results, completed) ==
    [k \in 1..Len(completed) |-> results[completed[k]]]

\* Line 106: gather returns the results in the order of the awaitables it
\* was given, which is the order of detections, not the order of completion
gather_results(results, completed) == results

\* gather's return_exceptions argument
return_exceptions_default == FALSE
return_exceptions == TRUE

\* a wait that ends with the first task that finishes
gather_first_completed(pcs) == pcs = <<>> \/ \E i \in 1..Len(pcs) : Finished(pcs[i])
\* when `await asyncio.gather(*tasks, return_exceptions=...)` resumes: with
\* return_exceptions, once every task has finished; without, also at the
\* first exception
gather_done(pcs) ==
    IF return_exceptions
    THEN \A i \in 1..Len(pcs) : Finished(pcs[i])
    ELSE \/ \A i \in 1..Len(pcs) : pcs[i] = "returned"
         \/ \E i \in 1..Len(pcs) : pcs[i] = "raised"

\* Lines 100-106 up to the await: one coroutine per detection, handed to gather.
OrchStart ==
    /\ orch_pc = "init"
    /\ orch_pc' = "gathering"
    /\ task_pc' = [i \in 1..Len(ex_detections) |-> "pending"]
    /\ task_number' = [i \in 1..Len(ex_detections) |-> 0]
    /\ task_proc' = [i \in 1..Len(ex_detections) |-> NoProc]
    /\ task_result' = [i \in 1..Len(ex_detections) |-> NoResult]
    /\ UNCHANGED <<ex_detections, ex_completed, audio_segments, fs, matchVars, dbVars, paVars, cwVars, spVars>>

\* Lines 64-87 of task i: the id is drawn, the command built and ffmpeg
\* spawned; the spawn itself may raise (no ffmpeg executable).
TaskStart(i) ==
    /\ orch_pc # "init"
    /\ i \in 1..Len(task_pc)
    /\ task_pc[i] = "pending"
    /\ \E n \in randint(1, RandintUpper) :
          /\ task_number' = [task_number EXCEPT ![i] = n]
          /\ \/ /\ task_pc' = [task_pc EXCEPT ![i] = "spawned"]
                /\ task_proc' = [task_proc EXCEPT ![i].argv =
                      ffmpeg_command(ExVideoPath, ex_detections[i],
                                     output_file(ExMovieName, n))]
                /\ UNCHANGED <<task_result, ex_completed>>
             \/ /\ task_pc' = [task_pc EXCEPT ![i] = "raised"]
                /\ task_result' = [task_result EXCEPT ![i] =
                      [exception |-> TRUE, value |-> <<"FileNotFoundError", <<>>>>]]
                /\ ex_completed' = Append(ex_completed, i)
                /\ UNCHANGED task_proc
    /\ UNCHANGED <<ex_detections, orch_pc, audio_segments, fs,
                   matchVars, dbVars, paVars, cwVars, spVars>>

\* The ffmpeg process of task i runs to its exit. With exit code 0 the file of
\* the command (with -y, replacing what was there) is written; a failing
\* process may have opened and truncated its output before it failed, or not.
FfmpegRun(i) ==
    /\ i \in 1..Len(task_pc)
    /\ task_pc[i] = "spawned"
    /\ task_pc' = [task_pc EXCEPT ![i] = "exited"]
    /\ LET path == output_file(ExMovieName, task_number[i]) IN
       \/ /\ task_proc' = [task_proc EXCEPT ![i].returncode = 0]
          /\ fs' = [fs EXCEPT ![path] = [exists |-> TRUE, writer |-> i, returncode |-> 0]]
       \/ \E text \in StderrTexts :
          /\ task_proc' = [task_proc EXCEPT ![i].returncode = 1, ![i].stderr = text]
          /\ \/ fs' = [fs EXCEPT ![path] = [exists |-> TRUE, writer |-> i, returncode |-> 1]]
             \/ UNCHANGED fs
    /\ UNCHANGED <<ex_detections, orch_pc, task_number, task_result, ex_completed,
                   audio_segments, matchVars, dbVars, paVars, cwVars, spVars>>

\* Lines 89-95 of task i, after communicate() has returned.
TaskFinish(i) ==
    /\ i \in 1..Len(task_pc)
    /\ task_pc[i] = "exited"
    /\ IF task_proc[i].returncode # 0
       THEN /\ task_pc' = [task_pc EXCEPT ![i] = "raised"]
            /\ task_result' = [task_result EXCEPT ![i] =
                  [exception |-> TRUE, value |-> ffmpeg_failure(task_proc[i].stderr)]]
       ELSE /\ task_pc' = [task_pc EXCEPT ![i] = "returned"]
            /\ task_result' = [task_result EXCEPT ![i] =
                  [exception |-> FALSE,
                   value |-> output_file(ExMovieName, task_number[i])]]
    /\ ex_completed' = Append(ex_completed, i)
    /\ UNCHANGED <<ex_detections, orch_pc, task_number, task_proc, audio_segments, fs,
                   matchVars, dbVars, paVars, cwVars, spVars>>

TaskStep(i) == TaskStart(i) \/ FfmpegRun(i) \/ TaskFinish(i)

\* Lines 106-118 from the moment gather resumes: the results are collected,
\* or, without return_exceptions, the first exception is raised to the caller.
GatherComplete ==
    /\ orch_pc = "gathering"
    /\ gather_done(task_pc)
    /\ IF ~return_exceptions /\ \E i \in 1..Len(task_pc) : task_pc[i] = "raised"
       THEN /\ orch_pc' = "raised"
            /\ UNCHANGED audio_segments
       ELSE /\ orch_pc' = "returned"
            /\ audio_segments' = collect_segments(ex_detections,
                                     gather_results(task_result, ex_completed))
    /\ UNCHANGED <<ex_detections, task_pc, task_number, task_proc, task_result,
                   ex_completed, fs,
                   matchVars, dbVars, paVars, cwVars, spVars>>

-----------------------------------------------------------------------------
(* POST /process-audio/{video_id} *)

\* f"upload_folder/sound_folder/{video.movie_name}-{create_number}.wav"
pa_output_file(movie_name, number) ==
    <<"upload_folder/sound_folder/", movie_name, "-", number, ".wav">>

\* `.filter(SrtDetectorWords.movie_name == name).all()`
detections_of(name) == SelectSeq(db_srt_words, LAMBDA d : d.movie_name = name)

\* a loop test that lets every drawn number through
number_taken_never(number, used) == FALSE

number_taken_always(number, used) == TRUE

\* the test of `while create_number in gen_number_set`
number_taken(number, used) == number \in used

\* a run that passes the start time as the duration too
ffmpeg_run_start_as_duration(video, detection, path) ==
    [input            |-> video.movie_path,
     ss               |-> detection.srt_start_time,
     t                |-> detection.srt_start_time,
     output           |-> path,
     codec            |-> "libmp3lame",
     bitrate          |-> "320k",
     overwrite_output |-> TRUE]
\* lines 139-141: ffmpeg.input(movie_path, ss=..., t=...), ffmpeg.output(...),
\* ffmpeg.run(..., overwrite_output=True)
ffmpeg_run(video, detection, path) ==
    [input            |-> video.movie_path,
     ss               |-> detection.srt_start_time,
     t                |-> detection.srt_stop_time,
     output           |-> path,
     codec            |-> "libmp3lame",
     bitrate          |-> "320k",
     overwrite_output |-> TRUE]

\* the MovieDetectorWords row added for one detection
MovieDetection(video, detection, path) ==
    [movie_name       |-> video.movie_name,
     words            |-> detection.words,
     movie_start_time |-> detection.srt_start_time,
     movie_stop_time  |-> detection.srt_stop_time,
     sound_file_path  |-> path]

\* The handler has no await: a request, once begun, runs to its end before
\* any other handler of the event loop runs. Lines 104-122.
PaBegin(video_id) ==
    /\ pa_pc \in {"idle", "done"}
    /\ pa_requests < MaxRequests
    /\ pa_requests' = pa_requests + 1
    /\ pa_video' = video_id
    /\ pa_i' = 1
    /\ create_number' = 0
    /\ gen_number_set' = {}
    /\ pa_files' = <<>>
    /\ pa_commands' = <<>>
    /\ processed_words' = <<>>
    /\ background_tasks' = <<>>
    /\ LET v == query_video(video_id, "checked") IN
       IF v = 0 \/ detections_of(db_videos[v].movie_name) = <<>>
       THEN /\ pa_response' = [status |-> 404, body |-> <<>>]
            /\ pa_detections' = <<>>
            /\ pa_pc' = "done"
       ELSE /\ pa_response' = NoResponse
            /\ pa_detections' = detections_of(db_videos[v].movie_name)
            /\ pa_pc' = "draw"
    /\ UNCHANGED <<dbVars, matchVars, exVars, cwVars, spVars, fs>>

\* Line 127: the first draw for the detection.
PaDraw ==
    /\ pa_pc = "draw"
    /\ \E n \in randint(1, RandintUpper) : create_number' = n
    /\ pa_pc' = "check"
    /\ UNCHANGED <<pa_video, pa_detections, pa_i, gen_number_set, pa_files,
                   pa_commands, processed_words, background_tasks, pa_response,
                   pa_requests, dbVars, matchVars, exVars, cwVars, spVars, fs>>

\* Lines 128-129: the drawn number is taken, another one is drawn.
PaRedraw ==
    /\ pa_pc = "check"
    /\ number_taken(create_number, gen_number_set)
    /\ \E n \in randint(1, RandintUpper) : create_number' = n
    /\ UNCHANGED <<pa_pc, pa_video, pa_detections, pa_i, gen_number_set, pa_files,
                   pa_commands, processed_words, background_tasks, pa_response,
                   pa_requests, dbVars, matchVars, exVars, cwVars, spVars, fs>>

\* Lines 130-133: the loop is left, the number recorded and the path built.
PaAllocate ==
    /\ pa_pc = "check"
    /\ ~number_taken(create_number, gen_number_set)
    /\ gen_number_set' = gen_number_set \cup {create_number}
    /\ pa_files' = Append(pa_files,
                          pa_output_file(db_videos[pa_video].movie_name, create_number))
    /\ pa_pc' = "ffmpeg"
    /\ UNCHANGED <<pa_video, pa_detections, pa_i, create_number, pa_commands,
                   processed_words, background_tasks, pa_response, pa_requests,
                   dbVars, matchVars, exVars, cwVars, spVars, fs>>

\* process_audio with a failing extraction skipped and the loop going on
PaFfmpegFailureSkipped ==
    /\ pa_pc = "ffmpeg"
    /\ pa_commands' = Append(pa_commands,
            ffmpeg_run(db_videos[pa_video], pa_detections[pa_i], pa_files[Len(pa_files)]))
    /\ LET video == db_videos[pa_video]
           path  == pa_files[Len(pa_files)]
       IN
       \/ /\ fs' = [fs EXCEPT ![path] =
                      [exists |-> TRUE, writer |-> pa_i, returncode |-> 0]]
          /\ processed_words' = Append(processed_words,
                                    MovieDetection(video, pa_detections[pa_i], path))
          /\ background_tasks' = Append(background_tasks,
                [movie_name      |-> video.movie_name,
                 audio_file_path |-> path,
                 words_list      |-> <<pa_detections[pa_i].words>>])
          /\ pa_i' = pa_i + 1
          /\ pa_pc' = IF pa_i = Len(pa_detections) THEN "commit" ELSE "draw"
          /\ UNCHANGED pa_response
       \/ /\ pa_i' = pa_i + 1
          /\ pa_pc' = IF pa_i = Len(pa_detections) THEN "commit" ELSE "draw"
          /\ \/ fs' = [fs EXCEPT ![path] =
                         [exists |-> TRUE, writer |-> pa_i, returncode |-> 1]]
             \/ UNCHANGED fs
          /\ UNCHANGED <<processed_words, background_tasks, pa_response>>
    /\ UNCHANGED <<pa_video, pa_detections, create_number, gen_number_set, pa_files,
                   pa_requests, dbVars, matchVars, exVars, cwVars, spVars>>

\* Lines 139-169: ffmpeg.run either writes the file, after which the row is
\* added to the session and the background task queued, or raises
\* ffmpeg.Error, which ends the request with status 500 and nothing committed.
PaFfmpeg ==
    /\ pa_pc = "ffmpeg"
    /\ pa_commands' = Append(pa_commands,
            ffmpeg_run(db_videos[pa_video], pa_detections[pa_i], pa_files[Len(pa_files)]))
    /\ LET video == db_videos[pa_video]
           path  == pa_files[Len(pa_files)]
       IN
       \/ /\ fs' = [fs EXCEPT ![path] =
                      [exists |-> TRUE, writer |-> pa_i, returncode |-> 0]]
          /\ processed_words' = Append(processed_words,
                                    MovieDetection(video, pa_detections[pa_i], path))
          /\ background_tasks' = Append(background_tasks,
                [movie_name      |-> video.movie_name,
                 audio_file_path |-> path,
                 words_list      |-> <<pa_detections[pa_i].words>>])
          /\ pa_i' = pa_i + 1
          /\ pa_pc' = IF pa_i = Len(pa_detections) THEN "commit" ELSE "draw"
          /\ UNCHANGED pa_response
       \/ /\ pa_response' = [status |-> 500, body |-> <<>>]
          /\ pa_pc' = "done"
          /\ \/ fs' = [fs EXCEPT ![path] =
                         [exists |-> TRUE, writer |-> pa_i, returncode |-> 1]]
             \/ UNCHANGED fs
          /\ UNCHANGED <<processed_words, background_tasks, pa_i>>
    /\ UNCHANGED <<pa_video, pa_detections, create_number, gen_number_set, pa_files,
                   pa_requests, dbVars, matchVars, exVars, cwVars, spVars>>

\* Lines 171-172: the rows of the request are committed and returned.
PaCommit ==
    /\ pa_pc = "commit"
    /\ db_movie_words' = db_movie_words \o processed_words
    /\ pa_response' = [status |-> 200, body |-> processed_words]
    /\ pa_pc' = "done"
    /\ UNCHANGED <<pa_video, pa_detections, pa_i, create_number, gen_number_set,
                   pa_files, pa_commands, processed_words, background_tasks,
                   pa_requests, srt_store, db_words, db_videos, db_srt_words, ps_response,
                   up_response,
                   matchVars, exVars, cwVars, spVars, fs>>

-----------------------------------------------------------------------------
(* SpeechService (speech.py): the mock transcription stub.  The calls of one
   batch share the session db; nothing awaits inside process_audio, so the
   calls run one after the other. *)

RECURSIVE str_int(_)
str_int(n) == IF n < 10 THEN <<Digit(n)>> ELSE str_int(n \div 10) \o <<Digit(n % 10)>>

\* str() of a float holding a whole number of seconds
str_float(seconds) == str_int(seconds) \o <<".", "0">>

\* line 66: end_time = current_time + 2.0
end_time(current_time) == current_time + 2

next_time_no_gap(current_time) == current_time + 2

\* line 76: current_time += 3.0
next_time(current_time) == current_time + 3

\* lines 69-74: the row of one word
MovieSpeechResponse(movie_name, words, start_time, stop_time) ==
    [movie_name |-> movie_name, words |-> words,
     movie_start_time |-> str_float(start_time),
     movie_stop_time |-> str_float(stop_time)]

SpeechMovieName == "m1"

\* what a failing session operation raises
DbErrors == {"OperationalError"}

rollback_keeps_pending(session) == session

\* db.rollback(): the pending rows leave the session
rollback(session) == <<>>

\* f"{len(words_list) * 2.5:.2f}s"
processing_duration(n) ==
    str_int((n * 25) \div 10) \o <<".", Digit((n * 25) % 10), "0", "s">>

\* lines 97-103
create_mock_stats(words) ==
    [total_words_processed |-> Len(words),
     words_detected |-> Len(words),
     confidence_scores |-> [k \in 1..Len(words) |-> "0.95"],
     average_confidence |-> "0.95",
     processing_duration |-> processing_duration(Len(words))]

NoOutcome == [raised |-> FALSE, value |-> <<>>]

\* lines 137-142: what process_audio returns
process_audio_result(movie_name, words) ==
    [raised |-> FALSE,
     value |-> [success |-> TRUE, movie_name |-> movie_name,
                statistics |-> create_mock_stats(words),
                message |-> "Audio processed in mock mode (Google Speech-to-Text disabled)"]]

\* lines 84 and 146-149: the DetectorException process_audio raises, its
\* message wrapping the one of _mock_process_timestamps
process_audio_error(e) ==
    [raised |-> TRUE,
     value |-> <<"Error in mock processing: ", "Error creating mock timestamps: ", e>>]

on_item_error_dropped(results, audio_file, error) == results

\* lines 232-239: the except clause of the batch loop
on_item_error(results, audio_file, error) ==
    Append(results, [success |-> FALSE, audio_file |-> audio_file, error |-> error])

\* the for loop of batch_process_audio: next item, or return results
batch_pc(k) == IF k <= Len(sp_audio_files) THEN "call" ELSE "done"

\* lines 219-222
BatchStart ==
    /\ sp_pc = "ready"
    /\ sp_results' = <<>>
    /\ sp_k' = 1
    /\ sp_pc' = batch_pc(1)
    /\ UNCHANGED <<sp_audio_files, sp_words_list, sp_w, sp_current_time, sp_session,
                   db_speech, sp_outcome, matchVars, dbVars, exVars, cwVars, fs, paVars>>

\* lines 225-229, 125-130, 61-62: process_audio is entered and
\* _mock_process_timestamps starts its loop
ProcessAudioCall ==
    /\ sp_pc = "call"
    /\ sp_current_time' = 0
    /\ sp_w' = 1
    /\ sp_pc' = "add"
    /\ UNCHANGED <<sp_audio_files, sp_words_list, sp_k, sp_session, db_speech,
                   sp_outcome, sp_results, matchVars, dbVars, exVars, cwVars, fs, paVars>>

\* lines 63-76: one iteration of the loop; an exception of the session ends
\* the call through both except clauses (lines 81-84, 144-149)
MockAdd ==
    /\ sp_pc = "add"
    /\ sp_w <= Len(sp_words_list)
    /\ \/ /\ sp_session' = Append(sp_session,
                               MovieSpeechResponse(SpeechMovieName, sp_words_list[sp_w],
                                                   sp_current_time,
                                                   end_time(sp_current_time)))
          /\ sp_current_time' = next_time(sp_current_time)
          /\ sp_w' = sp_w + 1
          /\ UNCHANGED <<sp_pc, sp_outcome>>
       \/ \E e \in DbErrors :
            /\ sp_session' = rollback(rollback(sp_session))
            /\ sp_outcome' = process_audio_error(e)
            /\ sp_pc' = "handled"
            /\ UNCHANGED <<sp_current_time, sp_w>>
    /\ UNCHANGED <<sp_audio_files, sp_words_list, sp_k, db_speech, sp_results,
                   matchVars, dbVars, exVars, cwVars, fs, paVars>>

\* line 79: db.commit() stores every pending row of the session, or fails
\* and stores none; then lines 132-142 or the except clauses
MockCommit ==
    /\ sp_pc = "add"
    /\ sp_w > Len(sp_words_list)
    /\ \/ /\ db_speech' = db_speech \o sp_session
          /\ sp_session' = <<>>
          /\ sp_outcome' = process_audio_result(SpeechMovieName, sp_words_list)
       \/ \E e \in DbErrors :
            /\ sp_session' = rollback(rollback(sp_session))
            /\ sp_outcome' = process_audio_error(e)
            /\ UNCHANGED db_speech
    /\ sp_pc' = "handled"
    /\ UNCHANGED <<sp_audio_files, sp_words_list, sp_k, sp_w, sp_current_time,
                   sp_results, matchVars, dbVars, exVars, cwVars, fs, paVars>>

\* lines 230-239 and the loop's next iteration or line 241
BatchAppend ==
    /\ sp_pc = "handled"
    /\ sp_results' = IF sp_outcome.raised
                     THEN on_item_error(sp_results, sp_audio_files[sp_k], sp_outcome.value)
                     ELSE Append(sp_results, sp_outcome.value)
    /\ sp_k' = sp_k + 1
    /\ sp_pc' = batch_pc(sp_k + 1)
    /\ UNCHANGED <<sp_audio_files, sp_words_list, sp_w, sp_current_time, sp_session,
                   db_speech, sp_outcome, matchVars, dbVars, exVars, cwVars, fs, paVars>>

-----------------------------------------------------------------------------
(* create_word (words.py).  The handler is a plain def, which the framework
   runs in a worker thread: requests overlap, each with a session of its
   own (get_db), and see what the others have committed. *)

Workers == 1..MaxWorkers

\* lines 37-39: `.filter(words_detector == word.words_detector).first()`
word_stored(word) == \E k \in 1..Len(db_words) : db_words[k] = word

\* lines 35-41: the query, and the 400 answer when the word is stored
CreateWordQuery(t, word) ==
    /\ cw_pc[t] \in {"idle", "done"}
    /\ cw_requests < MaxWordRequests
    /\ cw_requests' = cw_requests + 1
    /\ cw_word' = [cw_word EXCEPT ![t] = word]
    /\ IF word_stored(word)
       THEN /\ cw_response' = [cw_response EXCEPT ![t] = [status |-> 400, body |-> <<>>]]
            /\ cw_pc' = [cw_pc EXCEPT ![t] = "done"]
       ELSE /\ cw_response' = [cw_response EXCEPT ![t] = NoResponse]
            /\ cw_pc' = [cw_pc EXCEPT ![t] = "queried"]
    /\ UNCHANGED <<matchVars, dbVars, exVars, fs, paVars, spVars>>

\* lines 43-47: the row is added, committed and returned
CreateWordCommit(t) ==
    /\ cw_pc[t] = "queried"
    /\ db_words' = Append(db_words, cw_word[t])
    /\ cw_response' = [cw_response EXCEPT ![t] =
          [status |-> 200,
           body |-> <<[id |-> Len(db_words) + 1, words_detector |-> cw_word[t]]>>]]
    /\ cw_pc' = [cw_pc EXCEPT ![t] = "done"]
    /\ UNCHANGED <<cw_word, cw_requests, srt_store, db_videos, db_srt_words,
                   db_movie_words, ps_response, up_response,
                   matchVars, exVars, fs, paVars, spVars>>

-----------------------------------------------------------------------------
(* Initial values of the parts a specification leaves alone *)

MatchIdle ==
    /\ srt_file = <<>>
    /\ words_list = <<>>
    /\ cs_pc = "returned"
    /\ detected_words = <<>>

ExIdle ==
    /\ ex_detections = <<>>
    /\ orch_pc = "returned"
    /\ task_pc = <<>>
    /\ task_number = <<>>
    /\ task_proc = <<>>
    /\ task_result = <<>>
    /\ ex_completed = <<>>
    /\ audio_segments = <<>>

PaIdle ==
    /\ pa_pc = "idle"
    /\ pa_video = 0
    /\ pa_detections = <<>>
    /\ pa_i = 0
    /\ create_number = 0
    /\ gen_number_set = {}
    /\ pa_files = <<>>
    /\ pa_commands = <<>>
    /\ processed_words = <<>>
    /\ background_tasks = <<>>
    /\ pa_response = NoResponse
    /\ pa_requests = 0

CwIdle ==
    /\ cw_pc = [t \in Workers |-> "idle"]
    /\ cw_word = [t \in Workers |-> <<>>]
    /\ cw_response = [t \in Workers |-> NoResponse]
    /\ cw_requests = 0

SpIdle ==
    /\ sp_pc = "idle"
    /\ sp_audio_files = <<>>
    /\ sp_words_list = <<>>
    /\ sp_k = 0
    /\ sp_w = 0
    /\ sp_current_time = 0
    /\ sp_session = <<>>
    /\ db_speech = <<>>
    /\ sp_outcome = NoOutcome
    /\ sp_results = <<>>

-----------------------------------------------------------------------------
(* SpecMatch: the matcher on every small subtitle file and word list *)

\* texts of subtitle lines and entries of the word list
LineTexts == {<<>>, <<"a">>, <<"B">>, <<"a", "B">>, <<"B", "a">>}
WordChoices == {<<>>, <<"b">>, <<"B">>, <<"a", "b">>}

\* a file whose i-th line starts at base + (i-1) * 01:01:01,001 and lasts 1,250 s
SubtitleFile(base, texts) ==
    [i \in 1..Len(texts) |->
        [start |-> base + (i - 1) * 3661001,
         end   |-> base + (i - 1) * 3661001 + 1250,
         text  |-> texts[i]]]

SubtitleFiles == {SubtitleFile(5250, texts) : texts \in Strings(LineTexts, MaxLines)}

WordLists == Strings(WordChoices, MaxWords)

InitMatch ==
    /\ srt_file \in SubtitleFiles
    /\ words_list \in WordLists
    /\ cs_pc = "ready"
    /\ detected_words = <<>>
    /\ srt_store = [p \in {VideoInfo("m1", "v1.mp4", "s1.srt").movie_srt_path} |-> srt_file]
    /\ db_words = words_list
    /\ db_videos = <<VideoInfo("m1", "v1.mp4", "s1.srt")>>
    /\ db_srt_words = <<>>
    /\ db_movie_words = <<>>
    /\ ps_response = NoResponse
    /\ up_response = NoResponse
    /\ ExIdle
    /\ fs = <<>>
    /\ PaIdle
    /\ SpIdle
    /\ CwIdle

NextMatch ==
    \/ CheckSrt
    \/ \E video_id \in 1..(Len(db_videos) + 1) : ProcessSrt(video_id)

SpecMatch == InitMatch /\ [][NextMatch]_vars

-----------------------------------------------------------------------------
(* Claims about the matcher *)

\* two characters that are the same letter, whatever their case
SameLetter(c, d) ==
    \/ c = d
    \/ {c, d} = {"a", "A"}
    \/ {c, d} = {"b", "B"}

\* w occurs in t at some offset, letters compared without case
OccursIgnoringCase(w, t) ==
    \E off \in 0..(Len(t) - Len(w)) :
        \A k \in 1..Len(w) : SameLetter(w[k], t[off + k])

\* the (line, word) pairs of the drawn input that should be reported
Hits ==
    {h \in (1..Len(srt_file)) \X (1..Len(words_list)) :
        OccursIgnoringCase(words_list[h[2]], srt_file[h[1]].text)}

\* how often check_srt reported word w with the context and times of line i
Reported(i, w) ==
    Cardinality({k \in 1..Len(detected_words) :
        /\ detected_words[k].word = w
        /\ detected_words[k].context = srt_file[i].text
        /\ detected_words[k].start_time = Match(w, srt_file[i]).start_time})

\* C6: check_srt reports every (line, word-list entry) pair whose lowercased
\* word occurs in the lowercased line text exactly once and reports no other
\* pair: per line and word string, the number of Matches is the number of
\* word-list positions holding that string that hit the line; nothing is
\* deduplicated.
C6_OneMatchPerHit ==
    cs_pc = "returned" =>
        /\ Len(detected_words) = Cardinality(Hits)
        /\ \A i \in 1..Len(srt_file) : \A w \in WordChoices :
              Reported(i, w) =
                Cardinality({h \in Hits : h[1] = i /\ words_list[h[2]] = w})

\* a word listed twice that hits two lines, one of them only through its case
C6_Witness ==
    /\ cs_pc = "returned"
    /\ Len(srt_file) = 2 /\ Len(words_list) = 2
    /\ words_list[1] = words_list[2]
    /\ words_list[1] = <<"b">>
    /\ srt_file[1].text = <<"a", "B">>
    /\ Len(detected_words) = 4

\* position of hit h among the hits, lines first and word positions second
Rank(h) ==
    1 + Cardinality({g \in Hits :
            g[1] < h[1] \/ (g[1] = h[1] /\ g[2] < h[2])})

\* C7: the Matches are ordered by subtitle line first and by word-list
\* position second: the k-th Match is the one of the k-th hit in that order.
C7_LineThenWordOrder ==
    cs_pc = "returned" =>
        /\ Len(detected_words) = Cardinality(Hits)
        /\ \A h \in Hits :
              detected_words[Rank(h)] = Match(words_list[h[2]], srt_file[h[1]])

\* two lines each hit by two different words
C7_Witness ==
    /\ cs_pc = "returned"
    /\ Len(srt_file) = 2 /\ Len(words_list) = 2
    /\ words_list[1] # words_list[2]
    /\ Cardinality(Hits) = 4
    /\ Len(detected_words) = 4

NoComma(s) == \A k \in 1..Len(s) : s[k] # ","

\* out is raw with its commas turned into points and nothing else changed
PointForComma(raw, out) ==
    /\ Len(out) = Len(raw)
    /\ \A k \in 1..Len(raw) :
          /\ raw[k] = "," => out[k] = "."
          /\ raw[k] # "," => out[k] = raw[k]

\* start and stop are the point-separated times of one line of the file
TimesOfSomeLine(srt, start, stop) ==
    \E i \in 1..Len(srt) :
        /\ PointForComma(str_time(srt[i].start), start)
        /\ PointForComma(str_time(srt[i].end), stop)

\* C8: every start_time and stop_time emitted by check_srt and by the
\* process_srt endpoint holds no comma, and is the raw subtitle timestamp of
\* a line of the file with its comma rewritten to a point and the rest kept.
C8_NoCommaInTimes ==
    /\ \A k \in 1..Len(detected_words) :
          /\ NoComma(detected_words[k].start_time)
          /\ NoComma(detected_words[k].stop_time)
          /\ TimesOfSomeLine(srt_file, detected_words[k].start_time,
                             detected_words[k].stop_time)
    /\ \A k \in 1..Len(db_srt_words) :
          /\ NoComma(db_srt_words[k].srt_start_time)
          /\ NoComma(db_srt_words[k].srt_stop_time)
          /\ TimesOfSomeLine(srt_file, db_srt_words[k].srt_start_time,
                             db_srt_words[k].srt_stop_time)
    /\ ps_response.body \in {<<>>, db_srt_words}

\* both matchers have reported the line that starts at 01:01:06,251
C8_Witness ==
    /\ \E k \in 1..Len(detected_words) :
          detected_words[k].start_time =
            <<"0", "1", ":", "0", "1", ":", "0", "6", ".", "2", "5", "1">>
    /\ \E k \in 1..Len(db_srt_words) :
          /\ db_srt_words[k].srt_start_time =
               <<"0", "1", ":", "0", "1", ":", "0", "6", ".", "2", "5", "1">>
          /\ db_srt_words[k].srt_stop_time =
               <<"0", "1", ":", "0", "1", ":", "0", "7", ".", "5", "0", "1">>

-----------------------------------------------------------------------------
(* SpecExtract: one call of extract_audio_segments on every small batch *)

\* the matches a batch is drawn from: two hits of a two-line subtitle file
ExMatchChoices ==
    {Match(<<"a">>, SubtitleFile(5250, <<<<"a", "B">>, <<"B">>>>)[1]),
     Match(<<"b">>, SubtitleFile(5250, <<<<"a", "B">>, <<"B">>>>)[2])}

InitExtract ==
    /\ ex_detections \in Strings(ExMatchChoices, MaxMatches)
    /\ orch_pc = "init"
    /\ task_pc = <<>>
    /\ task_number = <<>>
    /\ task_proc = <<>>
    /\ task_result = <<>>
    /\ ex_completed = <<>>
    /\ audio_segments = <<>>
    /\ fs = [p \in OutputFiles |-> NoFile]
    /\ MatchIdle
    /\ srt_store = <<>>
    /\ db_words = <<>>
    /\ db_videos = <<>>
    /\ db_srt_words = <<>>
    /\ db_movie_words = <<>>
    /\ ps_response = NoResponse
    /\ up_response = NoResponse
    /\ PaIdle
    /\ SpIdle
    /\ CwIdle

NextExtract ==
    \/ OrchStart
    \/ \E i \in 1..MaxMatches : TaskStart(i)
    \/ \E i \in 1..MaxMatches : FfmpegRun(i)
    \/ \E i \in 1..MaxMatches : TaskFinish(i)
    \/ GatherComplete

SpecExtract == InitExtract /\ [][NextExtract]_vars

-----------------------------------------------------------------------------
(* Claims about extract_audio_segments *)

Tasks == 1..Len(task_pc)
Succeeded == {i \in Tasks : task_pc[i] = "returned"}
Failed == {i \in Tasks : task_pc[i] = "raised"}

\* the segment task i stands for: its match and the path the task chose
SegmentOf(i) ==
    AudioSegment(ex_detections[i], output_file(ExMovieName, task_number[i]))

Occurrences(seq, r) == Cardinality({k \in 1..Len(seq) : seq[k] = r})

\* C1: when extract_audio_segments has returned, the result holds one entry
\* (the match's fields plus the task's path) for every match whose task
\* returned a path and no entry for a match whose task failed: every record
\* occurs in the result as often as it is the segment of a succeeded task.
C1_SegmentIffTaskSucceeded ==
    orch_pc = "returned" =>
        /\ Len(audio_segments) = Cardinality(Succeeded)
        /\ \A i \in Succeeded :
              Occurrences(audio_segments, SegmentOf(i)) =
                Cardinality({j \in Succeeded : SegmentOf(j) = SegmentOf(i)})
        /\ \A k \in 1..Len(audio_segments) :
              \E i \in Succeeded : audio_segments[k] = SegmentOf(i)

\* a batch in which one task succeeded and one failed on a non-zero exit
C1_Witness ==
    /\ orch_pc = "returned"
    /\ Len(ex_detections) = 2
    /\ task_pc[1] = "raised" /\ task_proc[1].returncode = 1
    /\ task_pc[2] = "returned"
    /\ Len(audio_segments) = 1

\* C2: the call never raises, whatever its tasks do, and a batch of K matches
\* of which exactly one failed returns exactly K-1 segments.
C2_OneFailureDropsOneSegment ==
    /\ orch_pc # "raised"
    /\ (orch_pc = "returned" /\ Cardinality(Failed) = 1) =>
          Len(audio_segments) = Len(ex_detections) - 1

\* a returned batch of two matches whose second task failed
C2_Witness ==
    /\ orch_pc = "returned"
    /\ Len(ex_detections) = 2
    /\ Failed = {2}
    /\ Len(audio_segments) = Len(ex_detections) - 1

\* C3: the output paths chosen by the tasks of one call are pairwise
\* distinct, and no two returned segments share an audio_path.
C3_DistinctPaths ==
    /\ \A i, j \in Tasks :
          (i # j /\ task_number[i] # 0 /\ task_number[j] # 0) =>
              output_file(ExMovieName, task_number[i]) #
              output_file(ExMovieName, task_number[j])
    /\ \A k, l \in 1..Len(audio_segments) :
          k # l => audio_segments[k].audio_path # audio_segments[l].audio_path

\* C4: one task is started per match, the call returns only after every
\* task has finished, and an unfinished task can always take its next step,
\* whether or not a sibling has failed.
C4_WaitsForAllTasks ==
    /\ orch_pc # "init" => Len(task_pc) = Len(ex_detections)
    /\ orch_pc \in {"returned", "raised"} =>
          \A i \in 1..Len(ex_detections) : Finished(task_pc[i])
    /\ \A i \in Tasks :
          (~Finished(task_pc[i]) /\ Failed # {}) => ENABLED TaskStep(i)

\* the call has returned after its first task failed and its second succeeded
C4_Witness ==
    /\ orch_pc = "returned"
    /\ Len(ex_detections) = 2
    /\ task_pc[1] = "raised"
    /\ task_pc[2] = "returned"
    /\ fs[output_file(ExMovieName, task_number[2])].writer = 2

\* C5: the file at the audio_path of every returned segment was produced by
\* an ffmpeg process that exited with code zero.
C5_ReturnedFilesComplete ==
    orch_pc = "returned" =>
        \A k \in 1..Len(audio_segments) :
            /\ fs[audio_segments[k].audio_path].exists
            /\ fs[audio_segments[k].audio_path].returncode = 0

-----------------------------------------------------------------------------
(* SpecAudio: process_srt and process_audio requests on one uploaded video *)

AudioMovieName == "m1"

\* the uploaded subtitle: lines "aB" (hit by both words) and "B" (hit by one)
AudioSubtitleFiles ==
    {SubtitleFile(5250, texts) : texts \in Strings({<<"a", "B">>, <<"B">>}, MaxLines)}

PaOutputFiles == {pa_output_file(AudioMovieName, n) : n \in randint(1, RandintUpper)}

InitAudio ==
    /\ \E srt \in AudioSubtitleFiles :
          srt_store = [p \in {VideoInfo(AudioMovieName, "v1.mp4", "s1.srt").movie_srt_path}
                         |-> srt]
    /\ db_words = <<<<"a">>, <<"b">>>>
    /\ db_videos = <<VideoInfo(AudioMovieName, "v1.mp4", "s1.srt")>>
    /\ db_srt_words = <<>>
    /\ db_movie_words = <<>>
    /\ ps_response = NoResponse
    /\ up_response = NoResponse
    /\ fs = [p \in PaOutputFiles |-> NoFile]
    /\ MatchIdle
    /\ ExIdle
    /\ PaIdle
    /\ SpIdle
    /\ CwIdle

NextAudio ==
    \/ \E video_id \in 1..(Len(db_videos) + 1) : ProcessSrt(video_id)
    \/ \E video_id \in 1..(Len(db_videos) + 1) : PaBegin(video_id)
    \/ PaDraw
    \/ PaRedraw
    \/ PaAllocate
    \/ PaFfmpeg
    \/ PaCommit

SpecAudio == InitAudio /\ [][NextAudio]_vars

-----------------------------------------------------------------------------
(* Claims about the filename ids *)

\* the ids handed out so far in the running request
HandedOut == {pa_files[k][4] : k \in 1..Len(pa_files)}

\* C9: in the allocation loop of process_audio, after N allocations of one
\* request the used-id set holds exactly N distinct ids, they are the ids
\* handed out, and no id was handed out twice.
C9_AllocationsDistinct ==
    /\ Cardinality(gen_number_set) = Len(pa_files)
    /\ gen_number_set = HandedOut
    /\ \A k, l \in 1..Len(pa_files) : k # l => pa_files[k] # pa_files[l]
    /\ pa_pc \in {"draw", "check"} => Len(pa_files) = pa_i - 1
    /\ pa_pc = "ffmpeg" => Len(pa_files) = pa_i

\* a request that has made two allocations and still has an id of the range left
C9_Witness ==
    /\ pa_pc = "ffmpeg"
    /\ Len(pa_files) = 2
    /\ Cardinality(gen_number_set) = 2
    /\ Cardinality(gen_number_set) < Cardinality(randint(1, RandintUpper))

\* C10: every filename id lies in the documented range 1..DocumentedMaxId,
\* in the service extractor and in the process_audio endpoint.
C10_IdsInDocumentedRange ==
    /\ \A i \in Tasks : task_number[i] # 0 => task_number[i] \in 1..DocumentedMaxId
    /\ create_number # 0 => create_number \in 1..DocumentedMaxId
    /\ gen_number_set \subseteq 1..DocumentedMaxId

-----------------------------------------------------------------------------
(* SpecPipeline: the service extractor or the endpoint extractor *)

InitPipeline == InitExtract \/ InitAudio

\* Requests reach the endpoints in the behaviours that start with an
\* uploaded video; the others are calls of the service.
NextPipeline ==
    \/ db_videos = <<>> /\ NextExtract
    \/ db_videos # <<>> /\ NextAudio

SpecPipeline == InitPipeline /\ [][NextPipeline]_vars

\* C11: every extraction command seeks to its match's start_time, passes the
\* match's stop_time unchanged as the duration and carries the overwrite
\* instruction, in the service extractor (argv of the spawned process) and
\* in the process_audio endpoint (arguments of each ffmpeg run).
C11_CommandArguments ==
    /\ \A i \in Tasks :
          task_proc[i].argv # <<>> =>
            /\ task_proc[i].argv[2] = "-ss"
            /\ task_proc[i].argv[3] = ex_detections[i].start_time
            /\ task_proc[i].argv[6] = "-t"
            /\ task_proc[i].argv[7] = ex_detections[i].stop_time
            /\ task_proc[i].argv[Len(task_proc[i].argv)] = "-y"
    /\ \A k \in 1..Len(pa_commands) :
          /\ pa_commands[k].ss = pa_detections[k].srt_start_time
          /\ pa_commands[k].t = pa_detections[k].srt_stop_time
          /\ pa_commands[k].t \in
                {replace(str_time(line.end), ",", ".") :
                    line \in {srt_store[db_videos[pa_video].movie_srt_path][n] :
                        n \in 1..Len(srt_store[db_videos[pa_video].movie_srt_path])}}
          /\ pa_commands[k].overwrite_output

\* the endpoint has run ffmpeg for the line 00:00:05,250 --> 00:00:06,500
\* with the duration argument "00:00:06.500"
C11_Witness ==
    /\ Len(pa_commands) >= 1
    /\ pa_commands[1].ss = <<"0", "0", ":", "0", "0", ":", "0", "5", ".", "2", "5", "0">>
    /\ pa_commands[1].t = <<"0", "0", ":", "0", "0", ":", "0", "6", ".", "5", "0", "0">>

\* the service has spawned ffmpeg for a match with the same two times
C11_ServiceReached ==
    \E i \in Tasks :
        /\ task_pc[i] = "returned"
        /\ task_proc[i].argv[7] =
             <<"0", "0", ":", "0", "0", ":", "0", "6", ".", "5", "0", "0">>

-----------------------------------------------------------------------------
(* Claims about extract_audio_segment_async *)

\* reason is text without the white space around it
SameTextAsideFromMargins(reason, text) ==
    \E a \in 0..Len(text) : \E b \in a..Len(text) :
        /\ reason = SubSeq(text, a + 1, b)
        /\ \A k \in (1..a) \cup ((b + 1)..Len(text)) : is_space(text[k])

\* C12: a task returns its output path if and only if its ffmpeg process
\* exited with code zero; after a non-zero exit it raises an error whose
\* reason is the captured stderr text, and returns no path.
C12_PathIffExitZero ==
    \A i \in Tasks :
        /\ task_pc[i] = "returned" =>
              /\ task_proc[i].returncode = 0
              /\ task_result[i] = [exception |-> FALSE,
                                   value |-> output_file(ExMovieName, task_number[i])]
        /\ (Finished(task_pc[i]) /\ task_proc[i].returncode = 0) =>
              task_pc[i] = "returned"
        /\ (Finished(task_pc[i]) /\ task_proc[i].returncode > 0) =>
              /\ task_pc[i] = "raised"
              /\ task_result[i].exception
              /\ Len(task_result[i].value[2]) >= 1
              /\ SameTextAsideFromMargins(Tail(task_result[i].value[2]),
                                          task_proc[i].stderr)

\* the same with the reason required only of stderr that decodes
C12_PathIffExitZeroDecodable ==
    \A i \in Tasks :
        /\ task_pc[i] = "returned" =>
              /\ task_proc[i].returncode = 0
              /\ task_result[i] = [exception |-> FALSE,
                                   value |-> output_file(ExMovieName, task_number[i])]
        /\ (Finished(task_pc[i]) /\ task_proc[i].returncode = 0) =>
              task_pc[i] = "returned"
        /\ (Finished(task_pc[i]) /\ task_proc[i].returncode > 0) =>
              /\ task_pc[i] = "raised"
              /\ task_result[i].exception
              /\ decodable(task_proc[i].stderr) =>
                    /\ Len(task_result[i].value[2]) >= 1
                    /\ SameTextAsideFromMargins(Tail(task_result[i].value[2]),
                                                task_proc[i].stderr)

-----------------------------------------------------------------------------
(* SpecSpeech: one call of batch_process_audio on every audio-file list and
   word list within the bounds, with session operations that may fail. *)

AudioFileNames == {"f1", "f2"}
SpeechWords == {"w1", "w2"}

InitSpeech ==
    /\ sp_pc = "ready"
    /\ sp_audio_files \in Strings(AudioFileNames, MaxFiles)
    /\ sp_words_list \in Strings(SpeechWords, MaxSpeechWords)
    /\ sp_k = 0
    /\ sp_w = 0
    /\ sp_current_time = 0
    /\ sp_session = <<>>
    /\ db_speech = <<>>
    /\ sp_outcome = NoOutcome
    /\ sp_results = <<>>
    /\ MatchIdle
    /\ ExIdle
    /\ PaIdle
    /\ fs = <<>>
    /\ srt_store = <<>>
    /\ db_words = <<>>
    /\ db_videos = <<>>
    /\ db_srt_words = <<>>
    /\ db_movie_words = <<>>
    /\ ps_response = NoResponse
    /\ up_response = NoResponse
    /\ CwIdle

NextSpeech ==
    \/ BatchStart
    \/ ProcessAudioCall
    \/ MockAdd
    \/ MockCommit
    \/ BatchAppend

SpecSpeech == InitSpeech /\ [][NextSpeech]_vars

-----------------------------------------------------------------------------
(* Claims about the mock transcription stub *)

IsDigit(c) == \E d \in 0..9 : Digit(d) = c
DigitValue(c) == CHOOSE d \in 0..9 : Digit(d) = c

RECURSIVE Number(_)
Number(digits) ==
    IF digits = <<>> THEN 0
    ELSE 10 * Number(SubSeq(digits, 1, Len(digits) - 1)) + DigitValue(digits[Len(digits)])

\* text is a decimal number of whole seconds, written with one zero decimal
WholeSeconds(text) ==
    /\ Len(text) >= 3
    /\ text[Len(text) - 1] = "."
    /\ text[Len(text)] = "0"
    /\ \A k \in 1..(Len(text) - 2) : IsDigit(text[k])

Seconds(text) == Number(SubSeq(text, 1, Len(text) - 2))

\* row is the record of word number i (from 0) of the word list
RecordOfWord(row, i) ==
    /\ row.movie_name = SpeechMovieName
    /\ row.words = sp_words_list[i + 1]
    /\ WholeSeconds(row.movie_start_time)
    /\ WholeSeconds(row.movie_stop_time)
    /\ Seconds(row.movie_start_time) = i * 3
    /\ Seconds(row.movie_stop_time) = i * 3 + 2

\* rows are the records of the first Len(rows) words, each interval ending
\* before the next one starts
RecordsOfCall(rows) ==
    /\ \A j \in 1..Len(rows) : RecordOfWord(rows[j], j - 1)
    /\ \A j \in 1..(Len(rows) - 1) :
          Seconds(rows[j].movie_stop_time) < Seconds(rows[j + 1].movie_start_time)

\* calls of process_audio that have returned a result so far
CallsSucceeded ==
    Cardinality({k \in 1..Len(sp_results) : sp_results[k].success})
    + (IF sp_pc = "handled" /\ ~sp_outcome.raised THEN 1 ELSE 0)

\* C13: for a word list of length n a call of the stub creates exactly n
\* records in input order, record i (from 0) starting at i*3.0 and stopping
\* at i*3.0+2.0, so that each record stops before the next one starts.
C13_MockIntervals ==
    LET n == Len(sp_words_list) IN
    /\ Len(sp_session) <= n
    /\ RecordsOfCall(sp_session)
    /\ (sp_pc = "add" /\ sp_w > n) => Len(sp_session) = n
    /\ Len(db_speech) = n * CallsSucceeded
    /\ \A c \in 1..CallsSucceeded :
          RecordsOfCall(SubSeq(db_speech, (c - 1) * n + 1, c * n))

C13_Witness ==
    /\ Len(sp_words_list) = 4
    /\ Len(db_speech) >= 4
    /\ db_speech[4].movie_start_time = <<"9", ".", "0">>
    /\ db_speech[4].movie_stop_time = <<"1", "1", ".", "0">>

\* C14: batch_process_audio returns one result per audio file, in input
\* order: the result of an item whose processing failed is a record with
\* success false, the item and the error, and the loop goes on to the next
\* item.
C14_OneResultPerFile ==
    [][ /\ sp_pc' \in {"call", "add", "handled"} => Len(sp_results') = sp_k' - 1
        /\ sp_pc' = "done" => Len(sp_results') = Len(sp_audio_files)
        /\ sp_pc = "handled" =>
              /\ Len(sp_results') = sp_k
              /\ SubSeq(sp_results', 1, sp_k - 1) = sp_results
              /\ sp_results'[sp_k].success = ~sp_outcome.raised
              /\ sp_outcome.raised =>
                    sp_results'[sp_k] = [success |-> FALSE,
                                         audio_file |-> sp_audio_files[sp_k],
                                         error |-> sp_outcome.value]
              /\ sp_pc' = IF sp_k < Len(sp_audio_files) THEN "call" ELSE "done"
      ]_vars

C14_Witness ==
    /\ sp_pc = "done"
    /\ Len(sp_results) = 2
    /\ ~sp_results[1].success
    /\ sp_results[2].success

\* the rows one call of the stub adds for the word list
RowsOfCall ==
    [i \in 1..Len(sp_words_list) |->
        MovieSpeechResponse(SpeechMovieName, sp_words_list[i], (i - 1) * 3, (i - 1) * 3 + 2)]

\* C15: a call of the stub in which persisting fails is rolled back as a
\* unit: the stored records stay as the earlier calls left them, no record
\* the call added stays in the session, where a later commit would store
\* it, and the caller gets a processing error; records are stored only by
\* a call that returns a result, and are the records of that call.
C15_FailedCallRolledBack ==
    [][ /\ (sp_pc = "add" /\ sp_pc' = "handled" /\ sp_outcome'.raised) =>
              /\ db_speech' = db_speech
              /\ sp_session' = <<>>
              /\ Len(sp_outcome'.value) = 3
              /\ sp_outcome'.value[1] = "Error in mock processing: "
        /\ db_speech' # db_speech =>
              /\ sp_pc = "add" /\ sp_pc' = "handled"
              /\ ~sp_outcome'.raised
              /\ db_speech' = db_speech \o RowsOfCall
      ]_vars

C15_Witness ==
    /\ sp_pc = "handled"
    /\ sp_outcome.raised
    /\ sp_w > 1
    /\ Len(db_speech) >= 1

-----------------------------------------------------------------------------
(* SpecAudioFair: SpecAudio with fair random draws.  A request that can
   take its next step takes it, and a loop that keeps drawing while some
   number is still unused draws an unused one at some point. *)

FreshRedraw == PaRedraw /\ create_number' \notin gen_number_set

\* the subtitles of the fair runs: every line hit by both words, which
\* gives more detections than there are numbers, or a single hit
FairSubtitleFiles ==
    {SubtitleFile(5250, [i \in 1..MaxLines |-> <<"a", "B">>]),
     SubtitleFile(5250, <<<<"B">>>>)}

InitAudioFair ==
    /\ InitAudio
    /\ \A p \in DOMAIN srt_store : srt_store[p] \in FairSubtitleFiles

SpecAudioFair ==
    /\ InitAudioFair
    /\ [][NextAudio]_vars
    /\ WF_vars(PaDraw)
    /\ WF_vars(PaAllocate)
    /\ WF_vars(FreshRedraw)

\* every number a draw can give
IdRange == 1..RandintUpper

Saturated == IdRange \subseteq gen_number_set

\* C16: the retry loop of process_audio is left, under fair draws, whenever
\* a number of the range is unused; once every number of the range is used
\* the loop is never left and the request gets no response.
C16_LoopLeftUnlessSaturated ==
    /\ (pa_pc = "check" /\ ~Saturated) ~> (pa_pc = "ffmpeg")
    /\ [][(pa_pc = "check" /\ Saturated) =>
              (pa_pc' = "check" /\ pa_response' = NoResponse)]_vars

C16_Witness ==
    /\ pa_pc = "check"
    /\ Saturated
    /\ Len(pa_detections) > Cardinality(IdRange)
    /\ pa_i = Cardinality(IdRange) + 1

\* a loop left after a number was found taken and others were free
C16_RetriedAndLeft ==
    /\ pa_pc = "ffmpeg"
    /\ pa_i >= 2
    /\ Cardinality(gen_number_set) = pa_i

-----------------------------------------------------------------------------
(* Claims about the order of the returned segments *)

\* the number of succeeded tasks up to task i: the place of i's segment
PlaceOf(i) == Cardinality({j \in Succeeded : j <= i})

\* C17: the returned segments are in the order of their matches in the
\* input, whatever order the tasks completed in, and the audio_path of each
\* is the path of the task started for its match: the segment of the k-th
\* succeeded task, counted in input order, is the k-th segment.
C17_SegmentsInInputOrder ==
    orch_pc = "returned" =>
        /\ Len(audio_segments) = Cardinality(Succeeded)
        /\ \A i \in Succeeded :
              /\ audio_segments[PlaceOf(i)] = SegmentOf(i)
              /\ audio_segments[PlaceOf(i)].audio_path = task_result[i].value

\* both tasks succeeded on different paths, the second one finishing first
C17_Witness ==
    /\ orch_pc = "returned"
    /\ ex_completed = <<2, 1>>
    /\ Succeeded = {1, 2}
    /\ task_number[1] # task_number[2]
    /\ ex_detections[1] # ex_detections[2]
    /\ Len(audio_segments) = 2

-----------------------------------------------------------------------------
(* Claims about the effects of a failing task *)

\* task i takes a step of a failing run: its ffmpeg process exits with a
\* non-zero code, or its coroutine raises
FailingStep(i) ==
    \/ /\ task_pc[i] = "spawned"
       /\ task_pc'[i] = "exited"
       /\ task_proc'[i].returncode # 0
    \/ /\ task_pc[i] # "raised"
       /\ task_pc'[i] = "raised"

\* C18: a failing task changes nothing of the other tasks of the batch:
\* their results, and the files they wrote, are after each of its steps
\* what they were before.
C18_FailureLeavesSiblingsAlone ==
    [][ \A i \in Tasks :
          FailingStep(i) =>
              /\ \A j \in Tasks \ {i} :
                    /\ task_result'[j] = task_result[j]
                    /\ task_pc'[j] = task_pc[j]
              /\ \A p \in DOMAIN fs :
                    (fs[p].exists /\ fs[p].writer # i) => fs'[p] = fs[p]
      ]_vars

\* the same for failing tasks whose path no other task of the batch chose
C18_FailureLeavesOtherPathsAlone ==
    [][ \A i \in Tasks :
          FailingStep(i) =>
              /\ \A j \in Tasks \ {i} :
                    /\ task_result'[j] = task_result[j]
                    /\ task_pc'[j] = task_pc[j]
              /\ \A p \in DOMAIN fs :
                    p # output_file(ExMovieName, task_number[i]) => fs'[p] = fs[p]
      ]_vars

-----------------------------------------------------------------------------
(* SpecApi: the endpoints together. Videos are uploaded, process_srt and
   process_audio are requested for any id, in any order. *)

UploadVideoFilenames == {<<"v", ".", "a">>}
UploadSrtFilenames == {<<"s", ".", "B">>, <<"s", "b">>}

\* the uploaded subtitles: one line, hit by the word "a" or by the word "b"
UploadSubtitleFiles == {SubtitleFile(5250, <<<<"a">>>>), SubtitleFile(8250, <<<<"B">>>>)}

InitApi ==
    /\ db_words \in {<<>>, <<<<"a">>, <<"b">>>>}
    /\ db_videos = <<>>
    /\ srt_store = <<>>
    /\ db_srt_words = <<>>
    /\ db_movie_words = <<>>
    /\ ps_response = NoResponse
    /\ up_response = NoResponse
    /\ fs = [p \in PaOutputFiles |-> NoFile]
    /\ MatchIdle
    /\ ExIdle
    /\ PaIdle
    /\ SpIdle
    /\ CwIdle

NextApi ==
    \/ \E video_filename \in UploadVideoFilenames, srt_filename \in UploadSrtFilenames,
          srt_content \in UploadSubtitleFiles :
          UploadVideo(AudioMovieName, video_filename, srt_filename, srt_content)
    \/ \E video_id \in 1..(Len(db_videos) + 1) : ProcessSrt(video_id)
    \/ \E video_id \in 1..(Len(db_videos) + 1) : PaBegin(video_id)
    \/ PaDraw
    \/ PaRedraw
    \/ PaAllocate
    \/ PaFfmpeg
    \/ PaCommit

SpecApi == InitApi /\ [][NextApi]_vars

Videos == 1..Len(db_videos)

\* a step in which the subtitle of video v is processed
Processed(v) ==
    /\ db_videos[v].movie_check_status = "not_check"
    /\ db_videos'[v].movie_check_status = "checked"

\* C19: the subtitle of a video is processed at most once. A video row
\* stays, and once checked stays checked; a step changes the status of a
\* video only from not_check to checked and only together with the commit
\* of the detections the request returns; detections are added only in
\* such a step; a process_srt request answered 404 changes neither.
C19_SubtitleProcessedOnce ==
    [][ /\ Len(db_videos') >= Len(db_videos)
        /\ \A v \in Videos :
              /\ db_videos[v].movie_check_status = "checked" =>
                    db_videos'[v].movie_check_status = "checked"
              /\ db_videos'[v] # db_videos[v] =>
                    /\ Processed(v)
                    /\ ps_response'.status = 200
                    /\ db_srt_words' = db_srt_words \o ps_response'.body
                    /\ \A u \in Videos \ {v} : db_videos'[u] = db_videos[u]
        /\ db_srt_words' # db_srt_words => \E v \in Videos : Processed(v)
        /\ ((\E video_id \in 1..(Len(db_videos) + 1) : ProcessSrt(video_id))
             /\ ps_response'.status = 404) =>
              UNCHANGED <<db_videos, db_srt_words>>
      ]_vars

\* the first video was processed with detections, a process_audio request
\* has ended, and the last process_srt request was answered 404
C19_Witness ==
    /\ Len(db_videos) = 2
    /\ db_videos[1].movie_check_status = "checked"
    /\ db_srt_words # <<>>
    /\ pa_pc = "done"
    /\ pa_response.status = 200
    /\ ps_response.status = 404

-----------------------------------------------------------------------------
(* Claims about a failing extraction in process_audio *)

\* the step in which ffmpeg.run raises for the detection at pa_i
ExtractionFails ==
    /\ pa_pc = "ffmpeg"
    /\ pa_pc' # "ffmpeg"
    /\ Len(processed_words') = Len(processed_words)

\* C20: when the extraction of a detection fails in process_audio, the
\* request ends with status 500, no later detection is extracted, and no
\* row of the request is committed, the rows of the detections extracted
\* before it included: rows are committed only by a request that extracted
\* every detection and answers 200.
C20_FailureEndsRequestUncommitted ==
    [][ /\ ExtractionFails =>
              /\ pa_pc' = "done"
              /\ pa_response'.status = 500
              /\ db_movie_words' = db_movie_words
        /\ (pa_pc = "done" /\ pa_response.status = 500 /\ pa_requests' = pa_requests) =>
              /\ pa_commands' = pa_commands
              /\ db_movie_words' = db_movie_words
              /\ pa_response' = pa_response
        /\ db_movie_words' # db_movie_words =>
              /\ pa_response'.status = 200
              /\ Len(processed_words) = Len(pa_detections)
              /\ db_movie_words' = db_movie_words \o processed_words
      ]_vars

\* the request failed at its second detection of several, after the first
\* was extracted
C20_Witness ==
    /\ pa_pc = "done"
    /\ pa_response.status = 500
    /\ Len(processed_words) = 1
    /\ Len(pa_commands) = 2
    /\ Len(pa_detections) > 2
    /\ db_movie_words = <<>>

-----------------------------------------------------------------------------
(* SpecNames: the endpoints on videos uploaded under any of two names, with
   subtitle files of their own or sharing one. *)

UploadMovieNames == {"m1", "m2"}
NamedSrtFilenames == {<<"s", ".", "B">>, <<"t", ".", "b">>}

InitNames ==
    /\ db_words = <<<<"a">>, <<"b">>>>
    /\ db_videos = <<>>
    /\ srt_store = <<>>
    /\ db_srt_words = <<>>
    /\ db_movie_words = <<>>
    /\ ps_response = NoResponse
    /\ up_response = NoResponse
    /\ fs = [p \in {pa_output_file(name, n) :
                      name \in UploadMovieNames, n \in randint(1, RandintUpper)}
               |-> NoFile]
    /\ MatchIdle
    /\ ExIdle
    /\ PaIdle
    /\ SpIdle
    /\ CwIdle

NextNames ==
    \/ \E video_name \in UploadMovieNames, video_filename \in UploadVideoFilenames,
          srt_filename \in NamedSrtFilenames, srt_content \in UploadSubtitleFiles :
          UploadVideo(video_name, video_filename, srt_filename, srt_content)
    \/ \E video_id \in 1..(Len(db_videos) + 1) : ProcessSrt(video_id)
    \/ \E video_id \in 1..(Len(db_videos) + 1) : PaBegin(video_id)
    \/ PaDraw
    \/ PaRedraw
    \/ PaAllocate
    \/ PaFfmpeg
    \/ PaCommit

SpecNames == InitNames /\ [][NextNames]_vars

\* the detections process_srt produces from the subtitle of video v
OwnDetections(v) == process_srt_detections(db_videos[v], db_words)

\* every video has a subtitle file of its own: no upload replaced the
\* subtitle of another video
OwnSubtitles ==
    \A u, v \in Videos :
        u # v => db_videos[u].movie_srt_path # db_videos[v].movie_srt_path

DistinctNames ==
    \A u, v \in Videos : u # v => db_videos[u].movie_name # db_videos[v].movie_name

\* the ffmpeg runs of the request are for the detections of its own video,
\* in their order
ExtractsOwnDetections ==
    /\ Len(pa_commands) <= Len(OwnDetections(pa_video))
    /\ \A k \in 1..Len(pa_commands) :
          /\ pa_commands[k].ss = OwnDetections(pa_video)[k].srt_start_time
          /\ pa_commands[k].t = OwnDetections(pa_video)[k].srt_stop_time

\* C21: a process_audio request for a video extracts audio only for the
\* detections process_srt produced from the subtitle of that video, also
\* when other uploaded videos carry the same movie_name.
C21_ExtractsOwnDetectionsOnly ==
    (pa_video \in Videos /\ OwnSubtitles) => ExtractsOwnDetections

\* the same for videos whose names differ
C21_ExtractsOwnDetectionsUnderDistinctNames ==
    (pa_video \in Videos /\ OwnSubtitles /\ DistinctNames) => ExtractsOwnDetections

\* two videos under different names, a request for the second has run
C21_DistinctNamesReached ==
    /\ Len(db_videos) = 2
    /\ OwnSubtitles /\ DistinctNames
    /\ pa_video = 2
    /\ pa_pc = "done"
    /\ pa_response.status = 200
    /\ \A v \in Videos : db_videos[v].movie_check_status = "checked"

-----------------------------------------------------------------------------
(* SpecWords: create_word requests on the worker threads, overlapping in
   any way.  SpecWordsSerial: the same requests taken one at a time. *)

WordStrings == {<<"a">>, <<"b">>}

InitWords ==
    /\ CwIdle
    /\ db_words = <<>>
    /\ db_videos = <<>>
    /\ srt_store = <<>>
    /\ db_srt_words = <<>>
    /\ db_movie_words = <<>>
    /\ ps_response = NoResponse
    /\ up_response = NoResponse
    /\ fs = <<>>
    /\ MatchIdle
    /\ ExIdle
    /\ PaIdle
    /\ SpIdle

NextWords ==
    \/ \E t \in Workers, word \in WordStrings : CreateWordQuery(t, word)
    \/ \E t \in Workers : CreateWordCommit(t)

SpecWords == InitWords /\ [][NextWords]_vars

NextWordsSerial ==
    \/ \E t \in Workers, word \in WordStrings :
          /\ \A u \in Workers : cw_pc[u] # "queried"
          /\ CreateWordQuery(t, word)
    \/ \E t \in Workers : CreateWordCommit(t)

SpecWordsSerial == InitWords /\ [][NextWordsSerial]_vars

\* C22: whatever the order and the overlap of the create_word requests,
\* the word list holds no two entries with the same words_detector: a
\* request for a stored string answers 400 and adds nothing.
C22_NoDuplicateWords ==
    \A i, j \in 1..Len(db_words) : i # j => db_words[i] # db_words[j]

\* the same, with the answers, for requests taken one at a time
C22_NoDuplicateWordsSerial ==
    [][ /\ \A i, j \in 1..Len(db_words') : i # j => db_words'[i] # db_words'[j]
        /\ \A t \in Workers, word \in WordStrings :
              (CreateWordQuery(t, word) /\ word_stored(word)) =>
                  /\ cw_response'[t].status = 400
                  /\ db_words' = db_words
      ]_vars

\* a request for a stored word was answered 400
C22_RefusedReached ==
    /\ Len(db_words) = 2
    /\ \E t \in Workers : cw_pc[t] = "done" /\ cw_response[t].status = 400

====
